---- MODULE Spec2Model ----
(***************************************************************************)
(* State-machine model of check_shelly.py (v0.3), a monitoring plugin that *)
(* queries a Shelly device over HTTP and prints one Nagios-style line.     *)
(*                                                                         *)
(* One behaviour is one invocation of the script.  The command line and    *)
(* the device's reported values are chosen in Init; the device's answer to *)
(* every HTTP request is chosen when the request is issued.  A 200 answer  *)
(* carries a well-formed document of the device (all fields present).      *)
(***************************************************************************)
EXTENDS Integers, Sequences, FiniteSets, TLC

VARIABLES
    args,               \* argparse namespace (line 62)
    dev,                \* values the device reports in its documents
    pc,                 \* position of the script
    auth,               \* line 42 / 69
    ignore_restart,     \* line 43 / 85
    expect_powerstatus, \* line 47 / 91: "None", "True" or "False"
    exit_status,        \* line 46, 209, 280
    r, r_status, r_meter, r_relay,  \* response objects (names of the script)
    parsed,             \* names of the responses on which .json() was called
    reqs,               \* HTTP exchanges issued so far, in order
    stdout,             \* lines printed to standard output
    stderr,             \* name of the uncaught exception, "" if none
    exitcode            \* process exit code, -1 while running

vars == <<args, dev, pc, auth, ignore_restart, expect_powerstatus, exit_status,
          r, r_status, r_meter, r_relay, parsed, reqs, stdout, stderr, exitcode>>

-----------------------------------------------------------------------------
(* Bounds *)

\* uptime values reported by the device are 0 .. MaxUptime
MaxUptime == 1

-----------------------------------------------------------------------------
(* Values *)

\* a Python name that was never assigned (reading it raises NameError)
Unbound == -1
\* the Python value None
PyNone == 0

\* HTTP status codes a device can answer with: success, a non-200 status
\* below 400, authentication required, and a server error
StatusCodes == {200, 204, 401, 500}
\* outcome of one HTTP exchange: a status code or a network-level exception
NetworkError == -2
Outcomes == StatusCodes \cup {NetworkError}

CheckTypes == {"info", "system", "meter"}
ShellyVersions == {"1", "2", "default"}
ExpectChoices == {"None", "0", "1", "off", "on"}

\* bool(response): requests.Response.__bool__ is Response.ok, true when the
\* status code is below 400; None is false
Truthy(resp) == resp # PyNone /\ resp < 400

\* truth value of a Python str: the empty string only is false
StrTruthy(s) == s # ""

\* the script compares shelly_version with the string '1' (lines 96, 134 ...)
IsGen1 == args.shelly_version = "1"

-----------------------------------------------------------------------------
(* Process termination *)

Line(label, text, perf) == [label |-> label, text |-> text, perf |-> perf]

\* perfdata = "": no performance data
NoPerf == <<>>

\* print(line); sys.exit(code)
PrintAndExit(line, code) ==
    /\ stdout' = Append(stdout, line)
    /\ exitcode' = code
    /\ pc' = "done"

\* an uncaught exception: traceback on standard error, exit code 1
Raise(exc) ==
    /\ stderr' = exc
    /\ exitcode' = 1
    /\ pc' = "done"
    /\ UNCHANGED stdout

\* systemexit (lines 122-124)
systemexit(status, label, text, perf) == PrintAndExit(Line(label, text, perf), status)

-----------------------------------------------------------------------------
Init ==
    /\ args \in [auth : BOOLEAN, password : BOOLEAN, checktype : CheckTypes,
                 shelly_version : ShellyVersions, ignore_restart : BOOLEAN,
                 expect_powerstatus : ExpectChoices]
    /\ dev \in [restart_required : BOOLEAN, ison : BOOLEAN, uptime : 0..MaxUptime]
    /\ pc = "inputs"
    /\ auth = FALSE
    /\ ignore_restart = FALSE
    /\ expect_powerstatus = "None"
    /\ exit_status = 0
    /\ r = Unbound /\ r_status = Unbound /\ r_meter = Unbound /\ r_relay = Unbound
    /\ parsed = {}
    /\ reqs = <<>>
    /\ stdout = <<>>
    /\ stderr = ""
    /\ exitcode = -1

-----------------------------------------------------------------------------
(* Handling of the inputs (lines 64-106) *)

\* lines 68 and 71: authentication is requested and no password is given
MissingPassword(a) == a.auth /\ ~a.password

\* lines 65-73: --auth needs --password
HandleAuth ==
    /\ pc = "inputs"
    /\ auth' = (IF args.auth THEN TRUE ELSE auth)
    /\ IF MissingPassword(args)
         THEN /\ PrintAndExit(Line("CRITICAL", "Need to give password when authentication is enabled", NoPerf), 2)
              /\ UNCHANGED stderr
         ELSE /\ pc' = "options"
              /\ UNCHANGED <<stdout, stderr, exitcode>>
    /\ UNCHANGED <<args, dev, ignore_restart, expect_powerstatus, exit_status,
                   r, r_status, r_meter, r_relay, parsed, reqs>>

\* line 91: '1' and 'on' mean on, '0' and 'off' mean off
ExpectValue(choice) == IF choice = "1" \/ choice = "on" THEN "True" ELSE "False"

\* a version of ExpectOutsideMeter that lets the system check through
ExpectOutsideMeterInfoOnly(a) == a.expect_powerstatus # "None" /\ a.checktype = "info"

\* lines 90 and 92: --expect-powerstatus is given with another type than meter
ExpectOutsideMeter(a) == a.expect_powerstatus # "None" /\ a.checktype # "meter"

\* lines 75-94: the other options; --expect-powerstatus needs --type meter
HandleOptions ==
    /\ pc = "options"
    /\ ignore_restart' = (IF args.ignore_restart THEN TRUE ELSE ignore_restart)
    /\ IF args.expect_powerstatus # "None"
         THEN /\ expect_powerstatus' = ExpectValue(args.expect_powerstatus)
              /\ IF ExpectOutsideMeter(args)
                   THEN /\ PrintAndExit(Line("UNKNOWN", "expect-powerstatus requires check type 'meter'", NoPerf), 3)
                        /\ UNCHANGED stderr
                   ELSE /\ pc' = "select"
                        /\ UNCHANGED <<stdout, stderr, exitcode>>
         ELSE /\ pc' = "select"
              /\ UNCHANGED <<expect_powerstatus, stdout, stderr, exitcode>>
    /\ UNCHANGED <<args, dev, auth, exit_status,
                   r, r_status, r_meter, r_relay, parsed, reqs>>

\* lines 96-106 and the dispatch on checktype (lines 127, 163, 221, 296)
SelectCheck ==
    /\ pc = "select"
    /\ IF args.checktype \in CheckTypes
         THEN /\ pc' = args.checktype
              /\ UNCHANGED <<stdout, stderr, exitcode>>
         ELSE /\ systemexit(3, "UNKNOWN", "Unknown check type. Try --help.", NoPerf)
              /\ UNCHANGED stderr
    /\ UNCHANGED <<args, dev, auth, ignore_restart, expect_powerstatus, exit_status,
                   r, r_status, r_meter, r_relay, parsed, reqs>>

-----------------------------------------------------------------------------
(* HTTP *)

Exchange(url, outcome) == [url |-> url, outcome |-> outcome]

\* responsehandler (lines 114-120) ends the process on a status other than 200
Rejects(resp) == resp # 200

\* the line responsehandler prints and the code it exits with
responsehandler(resp) ==
    IF resp = 401
      THEN PrintAndExit(Line("WARNING", "unable to authenticate (Shelly requires authentication)", NoPerf), 1)
      ELSE PrintAndExit(Line("CRITICAL", "Not able to communicate with Shelly device - HTTP response", NoPerf), 2)

\* except OSError as err: systemexit(2, "SHELLY CRITICAL: err", "")
NetworkFailure == systemexit(2, "CRITICAL", "network error", NoPerf)

-----------------------------------------------------------------------------
(* info (lines 127-160) *)

\* lines 128-131
InfoGet ==
    /\ pc = "info"
    /\ \E o \in Outcomes :
         /\ reqs' = Append(reqs, Exchange("info", o))
         /\ IF o = NetworkError
              THEN NetworkFailure /\ UNCHANGED r
              ELSE r' = o /\ pc' = "info_report" /\ UNCHANGED <<stdout, exitcode>>
    /\ UNCHANGED <<args, dev, auth, ignore_restart, expect_powerstatus, exit_status,
                   r_status, r_meter, r_relay, parsed, stderr>>

\* lines 132-160
InfoReport ==
    /\ pc = "info_report"
    /\ IF Rejects(r)
         THEN responsehandler(r) /\ UNCHANGED <<parsed, exit_status>>
         ELSE /\ parsed' = parsed \cup {"r"}
              /\ exit_status' = 0
              /\ systemexit(0, "OK", "Device is running", NoPerf)
    /\ UNCHANGED <<args, dev, auth, ignore_restart, expect_powerstatus,
                   r, r_status, r_meter, r_relay, reqs, stderr>>

-----------------------------------------------------------------------------
(* system (lines 163-219) *)

\* lines 164-169 and 173-177: the request to apiurl; r_status is assigned
\* (to None) in the branch with authentication only
SystemPost ==
    /\ pc = "system"
    /\ \E o \in Outcomes :
         /\ reqs' = Append(reqs, Exchange("api", o))
         /\ IF o = NetworkError
              THEN NetworkFailure /\ UNCHANGED <<r, r_status>>
              ELSE /\ r' = o
                   /\ r_status' = (IF auth THEN PyNone ELSE r_status)
                   /\ pc' = (IF auth /\ IsGen1 THEN "system_status" ELSE "system_check")
                   /\ UNCHANGED <<stdout, exitcode>>
    /\ UNCHANGED <<args, dev, auth, ignore_restart, expect_powerstatus, exit_status,
                   r_meter, r_relay, parsed, stderr>>

\* lines 169-172: generation 1 with authentication also requests statusurl,
\* before any response has been examined
SystemPostStatus ==
    /\ pc = "system_status"
    /\ \E o \in Outcomes :
         /\ reqs' = Append(reqs, Exchange("status", o))
         /\ IF o = NetworkError
              THEN NetworkFailure /\ UNCHANGED r_status
              ELSE r_status' = o /\ pc' = "system_check" /\ UNCHANGED <<stdout, exitcode>>
    /\ UNCHANGED <<args, dev, auth, ignore_restart, expect_powerstatus, exit_status,
                   r, r_meter, r_relay, parsed, stderr>>

\* lines 178-183
SystemCheck ==
    /\ pc = "system_check"
    /\ IF Rejects(r)
         THEN responsehandler(r) /\ UNCHANGED <<parsed, stderr>>
         ELSE IF r_status = Unbound
           THEN Raise("NameError: r_status") /\ UNCHANGED parsed
           ELSE IF Truthy(r_status)
             THEN IF Rejects(r_status)
                    THEN responsehandler(r_status) /\ UNCHANGED <<parsed, stderr>>
                    ELSE /\ parsed' = parsed \cup {"r_status", "r"}
                         /\ pc' = "system_report"
                         /\ UNCHANGED <<stdout, stderr, exitcode>>
             ELSE /\ parsed' = parsed \cup {"r"}
                  /\ pc' = "system_report"
                  /\ UNCHANGED <<stdout, stderr, exitcode>>
    /\ UNCHANGED <<args, dev, auth, ignore_restart, expect_powerstatus, exit_status,
                   r, r_status, r_meter, r_relay, reqs>>

\* lines 207-209: a required restart raises the status unless it is ignored
RestartStatus(restart_required, ignore, status) ==
    IF restart_required = TRUE /\ ignore = FALSE THEN 1 ELSE status

\* lines 211-216: the message for a status; "" stands for output_critical,
\* a name that is never assigned
SystemOutput(status) ==
    IF status > 1 THEN ""
    ELSE IF status > 0 THEN "WARNING"
    ELSE "OK"

\* line 218
SystemPerf == [uptime |-> dev.uptime, memory |-> "ram_used", disk |-> "fs_used"]

\* lines 185-219
SystemReport ==
    /\ pc = "system_report"
    /\ IF IsGen1 /\ "r_status" \notin parsed
         THEN Raise("NameError: data_status") /\ UNCHANGED exit_status
         ELSE /\ exit_status' = (IF IsGen1 THEN exit_status
                                 ELSE RestartStatus(dev.restart_required, ignore_restart, exit_status))
              /\ IF SystemOutput(exit_status') = ""
                   THEN Raise("NameError: output_critical")
                   ELSE /\ systemexit(exit_status', SystemOutput(exit_status'),
                                      IF exit_status' > 0 THEN "Device requires a restart"
                                                          ELSE "Device, uptime",
                                      SystemPerf)
                        /\ UNCHANGED stderr
    /\ UNCHANGED <<args, dev, auth, ignore_restart, expect_powerstatus,
                   r, r_status, r_meter, r_relay, parsed, reqs>>

-----------------------------------------------------------------------------
(* meter (lines 221-294) *)

\* lines 222-228 and 233-237: r_meter and r_relay start as None; the request
\* to apiurl
MeterPost ==
    /\ pc = "meter"
    /\ r_meter' = PyNone
    /\ r_relay' = PyNone
    /\ \E o \in Outcomes :
         /\ reqs' = Append(reqs, Exchange("api", o))
         /\ IF o = NetworkError
              THEN NetworkFailure /\ UNCHANGED r
              ELSE /\ r' = o
                   /\ pc' = (IF auth /\ IsGen1 THEN "meter_meter" ELSE "meter_check")
                   /\ UNCHANGED <<stdout, exitcode>>
    /\ UNCHANGED <<args, dev, auth, ignore_restart, expect_powerstatus, exit_status,
                   r_status, parsed, stderr>>

\* line 229: generation 1 with authentication requests meterurl
MeterPostMeter ==
    /\ pc = "meter_meter"
    /\ \E o \in Outcomes :
         /\ reqs' = Append(reqs, Exchange("meter", o))
         /\ IF o = NetworkError
              THEN NetworkFailure /\ UNCHANGED r_meter
              ELSE r_meter' = o /\ pc' = "meter_relay" /\ UNCHANGED <<stdout, exitcode>>
    /\ UNCHANGED <<args, dev, auth, ignore_restart, expect_powerstatus, exit_status,
                   r, r_status, r_relay, parsed, stderr>>

\* line 230: and then relayurl
MeterPostRelay ==
    /\ pc = "meter_relay"
    /\ \E o \in Outcomes :
         /\ reqs' = Append(reqs, Exchange("relay", o))
         /\ IF o = NetworkError
              THEN NetworkFailure /\ UNCHANGED r_relay
              ELSE r_relay' = o /\ pc' = "meter_check" /\ UNCHANGED <<stdout, exitcode>>
    /\ UNCHANGED <<args, dev, auth, ignore_restart, expect_powerstatus, exit_status,
                   r, r_status, r_meter, parsed, stderr>>

\* lines 238-244
MeterCheck ==
    /\ pc = "meter_check"
    /\ IF Rejects(r)
         THEN responsehandler(r) /\ UNCHANGED parsed
         ELSE IF Truthy(r_meter)
           THEN IF Rejects(r_meter)
                  THEN responsehandler(r_meter) /\ UNCHANGED parsed
                  ELSE IF Rejects(r_relay)
                    THEN responsehandler(r_relay) /\ UNCHANGED parsed
                    ELSE /\ parsed' = parsed \cup {"r_meter", "r_relay", "r"}
                         /\ pc' = "meter_report"
                         /\ UNCHANGED <<stdout, exitcode>>
           ELSE /\ parsed' = parsed \cup {"r"}
                /\ pc' = "meter_report"
                /\ UNCHANGED <<stdout, exitcode>>
    /\ UNCHANGED <<args, dev, auth, ignore_restart, expect_powerstatus, exit_status,
                   r, r_status, r_meter, r_relay, reqs, stderr>>

\* a JSON boolean as the Python value it parses to
PyBool(b) == IF b THEN "True" ELSE "False"

\* lines 252-259 and 283-290
StateText(status) ==
    IF status = 0 THEN "OK"
    ELSE IF status = 1 THEN "WARNING"
    ELSE IF status = 2 THEN "CRITICAL"
    ELSE "UNKNOWN"

\* a version of ExpectStatus that raises a mismatch to CRITICAL
ExpectStatusCritical(expected, powerstatus, status) ==
    IF expected # "None" /\ expected # powerstatus THEN 2 ELSE status

\* lines 278-280: generation 2 compares the expected with the reported state
ExpectStatus(expected, powerstatus, status) ==
    IF expected # "None" /\ expected # powerstatus THEN 1 ELSE status

\* line 250: generation 1 turns relay.ison into the text "on" or "off"
Gen1Powerstatus(ison) == IF ison THEN "on" ELSE "off"

\* line 262: 1 if powerstatus else 0, on the text of line 250
Gen1PowerstatusFlag(powerstatus) == IF StrTruthy(powerstatus) THEN 1 ELSE 0

\* line 293: 1 if powerstatus else 0, on the boolean of line 275
Gen2PowerstatusFlag(output) == IF output THEN 1 ELSE 0

\* line 262
Gen1MeterPerf(powerstatus) ==
    [power |-> "apower", total_power |-> "aenergy_total",
     powerstatus |-> Gen1PowerstatusFlag(powerstatus)]

\* line 293
Gen2MeterPerf(output) ==
    [power |-> "apower", current |-> "current", total_power |-> "aenergy_total",
     temp |-> "temp_celsius", powerstatus |-> Gen2PowerstatusFlag(output)]

\* lines 246-294
MeterReport ==
    /\ pc = "meter_report"
    /\ IF IsGen1
         THEN IF "r_meter" \notin parsed
                THEN Raise("NameError: data_meter") /\ UNCHANGED exit_status
                ELSE /\ systemexit(exit_status, StateText(exit_status),
                                   "SWITCH is " \o Gen1Powerstatus(dev.ison),
                                   Gen1MeterPerf(Gen1Powerstatus(dev.ison)))
                     /\ UNCHANGED <<exit_status, stderr>>
         ELSE /\ exit_status' = ExpectStatus(expect_powerstatus, PyBool(dev.ison), exit_status)
              /\ systemexit(exit_status', StateText(exit_status'),
                            "SWITCH is " \o (IF dev.ison THEN "on" ELSE "off"),
                            Gen2MeterPerf(dev.ison))
              /\ UNCHANGED stderr
    /\ UNCHANGED <<args, dev, auth, ignore_restart, expect_powerstatus,
                   r, r_status, r_meter, r_relay, parsed, reqs>>

Next ==
    \/ HandleAuth
    \/ HandleOptions
    \/ SelectCheck
    \/ InfoGet
    \/ InfoReport
    \/ SystemPost
    \/ SystemPostStatus
    \/ SystemCheck
    \/ SystemReport
    \/ MeterPost
    \/ MeterPostMeter
    \/ MeterPostRelay
    \/ MeterCheck
    \/ MeterReport

Spec == Init /\ [][Next]_vars

-----------------------------------------------------------------------------
(* Vocabulary of the properties *)

Done == pc = "done"

\* at least one exchange was issued and every outcome so far is status 200
AllOK == Len(reqs) > 0 /\ \A i \in 1..Len(reqs) : reqs[i].outcome = 200

\* exactly one line was printed, with this label, and this is the exit code
Reported(label, code) ==
    /\ Len(stdout) = 1
    /\ stdout[1].label = label
    /\ exitcode = code

SeverityValue(label) ==
    CASE label = "OK" -> 0
      [] label = "WARNING" -> 1
      [] label = "CRITICAL" -> 2
      [] OTHER -> 3

Urls == [i \in 1..Len(reqs) |-> reqs[i].url]

Failed == {i \in 1..Len(reqs) : reqs[i].outcome # 200}

FirstFailed == CHOOSE i \in Failed : \A j \in Failed : i <= j

-----------------------------------------------------------------------------
(* Properties *)

\* C1: a generation-2 system check whose responses are all 200 and whose device
\* reports restart_required = true ends with WARNING and exit code 1 without
\* --ignore-restart, and with OK and exit code 0 with it, for every uptime and
\* with authentication enabled or disabled.
C1_RestartVerdict ==
    (Done /\ args.checktype = "system" /\ ~IsGen1 /\ AllOK /\ dev.restart_required)
        => IF args.ignore_restart THEN Reported("OK", 0) ELSE Reported("WARNING", 1)

\* C2: a meter check of either generation whose responses are all 200 and that
\* has --expect-powerstatus ends with WARNING and exit code 1 when the expected
\* state differs from the state the device reports, and with OK and exit code 0
\* when it agrees.
C2_ExpectedPowerstatusVerdict ==
    (Done /\ args.checktype = "meter" /\ AllOK /\ args.expect_powerstatus # "None")
        => IF ExpectValue(args.expect_powerstatus) # PyBool(dev.ison)
             THEN Reported("WARNING", 1)
             ELSE Reported("OK", 0)

\* C3: when any exchange of a check returns status 401, the check ends with
\* the message 'unable to authenticate' and exit code 1, and no response body
\* has been parsed as JSON.
C3_UnauthorizedVerdict ==
    (Done /\ \E i \in 1..Len(reqs) : reqs[i].outcome = 401)
        => /\ Reported("WARNING", 1)
           /\ stdout[1].text = "unable to authenticate (Shelly requires authentication)"
           /\ parsed = {}

ConfigurationError ==
    \/ MissingPassword(args)
    \/ args.expect_powerstatus # "None" /\ args.checktype # "meter"
    \/ args.checktype \notin CheckTypes

\* C4 (as stated): every configuration error ends the invocation with UNKNOWN
\* and exit code 3, and no HTTP request has been issued.
C4_ConfigurationErrorUnknown ==
    (Done /\ ConfigurationError) => Reported("UNKNOWN", 3) /\ reqs = <<>>

\* C4 (amended): a configuration error never issues an HTTP request; a missing
\* password ends the invocation with CRITICAL and exit code 2, and
\* --expect-powerstatus outside a meter check (the password being in order)
\* ends it with UNKNOWN and exit code 3; the line 'Unknown check type' is
\* never printed, the argument parser admitting only info, system and meter.
C4_ConfigurationErrorVerdict ==
    /\ ConfigurationError => reqs = <<>>
    /\ (Done /\ ConfigurationError) =>
          IF MissingPassword(args) THEN Reported("CRITICAL", 2) ELSE Reported("UNKNOWN", 3)
    /\ \A i \in 1..Len(stdout) : stdout[i].text # "Unknown check type. Try --help."

\* both kinds of configuration error at once: the password is examined first
C4_Witness ==
    /\ Done
    /\ MissingPassword(args)
    /\ args.expect_powerstatus # "None" /\ args.checktype = "system"
    /\ Reported("CRITICAL", 2)

\* C5: every invocation ends having written exactly one line to standard
\* output, never zero and never more than one.
C5_ExactlyOneLine == Done => Len(stdout) = 1

\* C6: on every path that ends the process the exit code is one of 0, 1, 2, 3
\* and is the numeric value of the severity label printed in the report line.
C6_ExitCodeIsSeverity ==
    Done => /\ exitcode \in 0..3
            /\ \E i \in 1..Len(stdout) : exitcode = SeverityValue(stdout[i].label)

\* the requests C7 expects of a check type and generation
C7_Expected ==
    CASE args.checktype = "info" -> <<"info">>
      [] args.checktype = "system" -> IF IsGen1 THEN <<"api", "status">> ELSE <<"api">>
      [] args.checktype = "meter" -> IF IsGen1 THEN <<"api", "meter", "relay">> ELSE <<"api">>

\* C7: when every exchange succeeds, the requests issued before the verdict
\* depend on check type and generation only, not on authentication: one for
\* generation 2 and for info, two for a generation-1 system check (settings,
\* status) and three for a generation-1 meter check (settings, meter, relay).
C7_RequestCount == (Done /\ AllOK) => Urls = C7_Expected

\* C8: the first failed exchange is terminal: after a non-200 status or a
\* network exception no further request is issued, no endpoint is requested
\* twice, and the verdict is that of the first failed exchange (401 gives
\* WARNING, anything else CRITICAL).
C8_FirstFailureTerminal ==
    /\ \A i \in Failed : i = Len(reqs)
    /\ \A i, j \in 1..Len(reqs) : i # j => reqs[i].url # reqs[j].url
    /\ (Done /\ Failed # {}) =>
          IF reqs[FirstFailed].outcome = 401 THEN Reported("WARNING", 1)
                                             ELSE Reported("CRITICAL", 2)

\* the report lines of a meter check are those that carry performance data
MeterReports ==
    {i \in 1..Len(stdout) : args.checktype = "meter" /\ stdout[i].perf # NoPerf}

\* C9: in every meter report the performance data has a powerstatus flag that
\* is 1 when the device reports the switch on and 0 when it reports it off;
\* current and temp are present for generation 2 and absent for generation 1.
C9_PowerstatusFlag ==
    \A i \in MeterReports :
        LET perf == stdout[i].perf IN
        /\ "powerstatus" \in DOMAIN perf
        /\ perf.powerstatus = (IF dev.ison THEN 1 ELSE 0)
        /\ ("current" \in DOMAIN perf) = ~IsGen1
        /\ ("temp" \in DOMAIN perf) = ~IsGen1

\* C10: escalation never produces CRITICAL: in every check whose responses
\* are all 200 the status reached is 0 or 1, every label printed is OK or
\* WARNING and the exit code is 0 or 1, whatever restart_required,
\* ignore-restart, expected-power-status and the switch state are; and a
\* generation-1 system check stays at OK.
C10_NoCriticalEscalation ==
    AllOK =>
        /\ exit_status \in {0, 1}
        /\ \A i \in 1..Len(stdout) : stdout[i].label \in {"OK", "WARNING"}
        /\ Done => exitcode \in {0, 1}
        /\ (args.checktype = "system" /\ IsGen1) =>
              /\ exit_status = 0
              /\ \A i \in 1..Len(stdout) : stdout[i].label = "OK"

\* a generation-2 meter check with all responses 200 that was escalated
C10_Witness ==
    /\ Done /\ AllOK
    /\ args.checktype = "meter" /\ ~IsGen1
    /\ expect_powerstatus # "None" /\ expect_powerstatus # PyBool(dev.ison)
    /\ Reported("WARNING", 1)
====
